---------------------------- MODULE Spec2Model ----------------------------
(***************************************************************************)
(* Model of public/questions/02-data-types-conversion/solution.py:         *)
(* solve() reads five lines, converts them, and prints nine labelled       *)
(* lines.  Texts are sequences of one-character strings.  Python ints are  *)
(* sign + magnitude, the magnitude a little-endian sequence of 15-bit      *)
(* limbs (CPython's PyLong layout), so that values beyond the double       *)
(* range are represented exactly.  Python floats are IEEE-754 binary64     *)
(* values mant * 2^exp with a 53-bit mantissa.                             *)
(***************************************************************************)
EXTENDS Integers, Sequences, FiniteSets

(***************************************************************************)
(* Characters and texts                                                    *)
(***************************************************************************)
None == "None"

DigitChars == <<"0", "1", "2", "3", "4", "5", "6", "7", "8", "9">>

UpperChars == <<"A", "B", "C", "D", "E", "F", "G", "H", "I", "J", "K", "L", "M",
                "N", "O", "P", "Q", "R", "S", "T", "U", "V", "W", "X", "Y", "Z">>

LowerChars == <<"a", "b", "c", "d", "e", "f", "g", "h", "i", "j", "k", "l", "m",
                "n", "o", "p", "q", "r", "s", "t", "u", "v", "w", "x", "y", "z">>

\* The whitespace characters of the modelled alphabet (str.isspace()).
SpaceChars == {" ", "\t"}

IsDigit(c) == \E i \in 1..10 : DigitChars[i] = c

DigitVal(c) == (CHOOSE i \in 1..10 : DigitChars[i] = c) - 1

IsSpace(c) == c \in SpaceChars

\* str.lower() on one character.
LowerChar(c) ==
  IF \E i \in 1..26 : UpperChars[i] = c
  THEN LowerChars[CHOOSE i \in 1..26 : UpperChars[i] = c]
  ELSE c

\* str.lower()
Lower(s) == [i \in 1..Len(s) |-> LowerChar(s[i])]

\* str.strip(): surrounding whitespace removed.
Strip(s) ==
  IF \A i \in 1..Len(s) : IsSpace(s[i]) THEN <<>>
  ELSE LET first == CHOOSE i \in 1..Len(s) :
                      ~IsSpace(s[i]) /\ \A j \in 1..(i - 1) : IsSpace(s[j])
           last == CHOOSE i \in 1..Len(s) :
                     ~IsSpace(s[i]) /\ \A j \in (i + 1)..Len(s) : IsSpace(s[j])
       IN  SubSeq(s, first, last)

\* A loop "for i in lo..hi: acc = Op(acc, i)", split in halves so that the
\* evaluation depth stays logarithmic in the number of iterations (the
\* first test only makes the evaluator compute acc before going on).
RECURSIVE FoldRange(_, _, _, _)
FoldRange(Op(_, _), acc, lo, hi) ==
  IF acc /= acc \/ lo > hi THEN acc
  ELSE IF lo = hi THEN Op(acc, lo)
  ELSE LET mid == (lo + hi) \div 2
       IN  FoldRange(Op, FoldRange(Op, acc, lo, mid), mid + 1, hi)

\* F(x), with x evaluated once and bound to a name: a local variable.
Let(x, F(_)) == CHOOSE r \in {F(y) : y \in {x}} : TRUE

(***************************************************************************)
(* Magnitudes: little-endian sequences of limbs in 0..Base-1, with no      *)
(* most-significant zero limb; <<>> is zero.                               *)
(***************************************************************************)
Shift == 15

Base == 2^Shift

\* a without its most-significant zero limbs.
Trim(a) ==
  IF \A i \in 1..Len(a) : a[i] = 0 THEN <<>>
  ELSE SubSeq(a, 1, CHOOSE i \in 1..Len(a) :
                      a[i] /= 0 /\ \A j \in (i + 1)..Len(a) : a[j] = 0)

\* a * m + c for small m, c (m, c <= Base): limb by limb from the least
\* significant one, with a carry.
MulAdd(a, m, c) ==
  LET Step(st, i) ==
        LET t == a[i] * m + st.carry
        IN  [out |-> Append(st.out, t % Base), carry |-> t \div Base]
  IN  Let(FoldRange(Step, [out |-> <<>>, carry |-> c], 1, Len(a)),
          LAMBDA x : Trim(x.out \o <<x.carry % Base, x.carry \div Base>>))

\* [q |-> a div d, r |-> a mod d] for small d (d <= Base): limb by limb from
\* the most significant one, with a remainder.
DivSmall(a, d) ==
  LET n == Len(a)
      Step(st, k) ==
        LET t == st.r * Base + a[n + 1 - k]
        IN  [msb |-> Append(st.msb, t \div d), r |-> t % d]
  IN  Let(FoldRange(Step, [msb |-> <<>>, r |-> 0], 1, n),
          LAMBDA x : [q |-> Trim([i \in 1..n |-> x.msb[n + 1 - i]]), r |-> x.r])

RECURSIVE SmallBitLen(_)
SmallBitLen(x) == IF x = 0 THEN 0 ELSE 1 + SmallBitLen(x \div 2)

\* Number of bits of a (0 for zero).
BitLen(a) ==
  IF a = <<>> THEN 0 ELSE Shift * (Len(a) - 1) + SmallBitLen(a[Len(a)])

\* a * 2^s
ShiftLeft(a, s) ==
  IF a = <<>> THEN <<>>
  ELSE [i \in 1..(s \div Shift) |-> 0] \o MulAdd(a, 2^(s % Shift), 0)

\* [q |-> a div 2^s, lost |-> whether a nonzero bit was shifted out]
ShiftRight(a, s) ==
  Let(DivSmall(SubSeq(a, s \div Shift + 1, Len(a)), 2^(s % Shift)),
      LAMBDA x :
        [q |-> x.q,
         lost |-> x.r /= 0
                    \/ \E i \in 1..(s \div Shift) : i <= Len(a) /\ a[i] /= 0])

IsOdd(a) == a /= <<>> /\ a[1] % 2 = 1

\* -1, 0, 1 as a < b, a = b, a > b
Cmp(a, b) ==
  IF Len(a) < Len(b) THEN -1
  ELSE IF Len(a) > Len(b) THEN 1
  ELSE IF a = b THEN 0
  ELSE LET i == CHOOSE k \in 1..Len(a) :
                  a[k] /= b[k] /\ \A j \in (k + 1)..Len(a) : a[j] = b[j]
       IN  IF a[i] < b[i] THEN -1 ELSE 1

\* The magnitude of a small natural number.
RECURSIVE MagOf(_)
MagOf(n) == IF n = 0 THEN <<>> ELSE <<n % Base>> \o MagOf(n \div Base)

(***************************************************************************)
(* Python int: [neg, mag], zero being [neg |-> FALSE, mag |-> <<>>].       *)
(* A conversion that can raise returns [ok, val, exc].                     *)
(***************************************************************************)
MkInt(neg, mag) == [neg |-> neg /\ mag /= <<>>, mag |-> mag]

Ok(v) == [ok |-> TRUE, val |-> v, exc |-> None]

Raise(e) == [ok |-> FALSE, val |-> None, exc |-> e]

HasSign(t) == t /= <<>> /\ t[1] \in {"+", "-"}

\* The scan of an int literal's body b, character by character: prev is
\* "start", "digit", "us" or "bad", mag the value so far.  An underscore is
\* accepted only after a digit, and the scan must end on a digit.
ScanInt(b) ==
  LET Step(st, i) ==
        IF st.prev = "bad" THEN st
        ELSE IF IsDigit(b[i])
        THEN [prev |-> "digit", mag |-> MulAdd(st.mag, 10, DigitVal(b[i]))]
        ELSE IF b[i] = "_" /\ st.prev = "digit"
        THEN [prev |-> "us", mag |-> st.mag]
        ELSE [prev |-> "bad", mag |-> st.mag]
  IN  Let(FoldRange(Step, [prev |-> "start", mag |-> <<>>], 1, Len(b)),
          LAMBDA x : [ok |-> x.prev = "digit", mag |-> x.mag])

\* int(s) with a default: 0 where int(s) raises ValueError.
ParseIntOrZero(s) ==
  Let(Strip(s), LAMBDA t :
    Let(ScanInt(IF HasSign(t) THEN Tail(t) ELSE t), LAMBDA x :
      IF x.ok THEN Ok(MkInt(t[1] = "-", x.mag)) ELSE Ok(MkInt(FALSE, <<>>))))

\* int(s) for a text s: base 10, surrounding whitespace skipped, an optional
\* sign, digits with single underscores between them; ValueError otherwise.
ParseInt(s) ==
  Let(Strip(s), LAMBDA t :
    Let(ScanInt(IF HasSign(t) THEN Tail(t) ELSE t), LAMBDA x :
      IF x.ok THEN Ok(MkInt(t[1] = "-", x.mag)) ELSE Raise("ValueError")))

\* The decimal digits of a magnitude, most significant first (<<>> for 0):
\* repeated division by ten, at most one digit for three bits.
MagDigits(a) ==
  LET Step(st, i) ==
        IF st.q = <<>> THEN st
        ELSE Let(DivSmall(st.q, 10), LAMBDA x :
               [q |-> x.q, out |-> <<DigitChars[x.r + 1]>> \o st.out])
  IN  FoldRange(Step, [q |-> a, out |-> <<>>], 1, BitLen(a) \div 3 + 1).out

\* str(v) without the sign.
IntToStrUnsigned(v) == IF v.mag = <<>> THEN <<"0">> ELSE MagDigits(v.mag)

\* str(v) for an int v.
IntToStr(v) ==
  IF v.mag = <<>> THEN <<"0">>
  ELSE (IF v.neg THEN <<"-">> ELSE <<>>) \o MagDigits(v.mag)

\* The test v > 0 in place of bool(v).
IntToBoolPositive(v) == v.mag /= <<>> /\ ~v.neg

\* bool(v) for an int v.
IntToBool(v) == v.mag /= <<>>

\* str(b) for a bool b.
BoolToStr(b) == IF b THEN <<"T", "r", "u", "e">> ELSE <<"F", "a", "l", "s", "e">>

(***************************************************************************)
(* Python float: [cls, neg, mant, exp]; a finite value is mant * 2^exp     *)
(* with mant < 2^MantBits, exp >= MinExp, and mant >= 2^(MantBits-1)       *)
(* unless exp = MinExp (subnormal) or mant = 0 (then exp = 0).             *)
(***************************************************************************)
MantBits == 53

MaxExp == 1024

MinExp == -1074

FZero(neg) == [cls |-> "fin", neg |-> neg, mant |-> <<>>, exp |-> 0]

FInf(neg) == [cls |-> "inf", neg |-> neg, mant |-> <<>>, exp |-> 0]

FNan == [cls |-> "nan", neg |-> FALSE, mant |-> <<>>, exp |-> 0]

\* a div 2^s rounded to nearest, ties to even (s >= 1); sticky tells that
\* a itself was already truncated.
RoundShift(a, s, sticky) ==
  Let(ShiftRight(a, s - 1), LAMBDA x :
    Let(ShiftRight(x.q, 1).q, LAMBDA q :
      IF IsOdd(x.q) /\ (x.lost \/ sticky \/ IsOdd(q)) THEN MulAdd(q, 1, 1) ELSE q))

\* The finite double with mantissa m0 of at most MantBits + 1 bits and
\* exponent e, or the infinity when that is out of range.
Normalize(neg, m0, e) ==
  LET carry == BitLen(m0) > MantBits
      ex == IF carry THEN e + 1 ELSE e
  IN  Let(IF carry THEN ShiftRight(m0, 1).q ELSE m0, LAMBDA m :
        IF m = <<>> THEN FZero(neg)
        ELSE IF BitLen(m) + ex > MaxExp THEN FInf(neg)
        ELSE [cls |-> "fin", neg |-> neg, mant |-> m, exp |-> ex])

\* The double nearest to (-1)^neg * n * 2^e2 (n a magnitude; sticky: plus a
\* nonzero fraction of n's last bit); infinite when out of range.
MakeFloat(neg, n, e2, sticky) ==
  IF n = <<>> THEN FZero(neg)
  ELSE
    Let(BitLen(n) + e2 - MantBits, LAMBDA e0 :
      Let(IF e0 > MinExp THEN e0 ELSE MinExp, LAMBDA e :
        Let(IF e <= e2 THEN ShiftLeft(n, e2 - e) ELSE RoundShift(n, e - e2, sticky),
            LAMBDA m0 : Normalize(neg, m0, e))))

\* float(v) with the lowest bit of v lost.
IntToFloatLossy(v) ==
  Let(MakeFloat(v.neg, ShiftRight(v.mag, 1).q, 1, FALSE), LAMBDA f :
    IF f.cls = "inf" THEN Raise("OverflowError") ELSE Ok(f))

\* float(v) for an int v: OverflowError beyond the double range.
IntToFloat(v) ==
  Let(MakeFloat(v.neg, v.mag, 0, FALSE), LAMBDA f :
    IF f.cls = "inf" THEN Raise("OverflowError") ELSE Ok(f))

\* floor(f) in place of int(f): a negative f with a fraction goes one down.
FloatToIntFloor(f) ==
  IF f.cls = "inf" THEN Raise("OverflowError")
  ELSE IF f.cls = "nan" THEN Raise("ValueError")
  ELSE IF f.exp >= 0 THEN Ok(MkInt(f.neg, ShiftLeft(f.mant, f.exp)))
  ELSE Let(ShiftRight(f.mant, 0 - f.exp), LAMBDA x :
         Ok(MkInt(f.neg, IF f.neg /\ x.lost THEN MulAdd(x.q, 1, 1) ELSE x.q)))

\* int(f) for a float f: the integer part, the fraction dropped.
FloatToInt(f) ==
  IF f.cls = "inf" THEN Raise("OverflowError")
  ELSE IF f.cls = "nan" THEN Raise("ValueError")
  ELSE IF f.exp >= 0 THEN Ok(MkInt(f.neg, ShiftLeft(f.mant, f.exp)))
  ELSE Ok(MkInt(f.neg, ShiftRight(f.mant, 0 - f.exp).q))

\* bool(f) for a float f.
FloatToBool(f) == f.cls /= "fin" \/ f.mant /= <<>>

\* str(f) for a float f, kept as the value it denotes: repr() gives every
\* double its own text, and every NaN the text "nan".
FloatToStr(f) == [repr |-> f]

(***************************************************************************)
(* float(s) for a text s                                                   *)
(***************************************************************************)
\* Underscores are accepted only between two digits.
UnderscoresOk(t) ==
  \A i \in 1..Len(t) :
    t[i] = "_" => /\ i > 1 /\ IsDigit(t[i - 1])
                  /\ i < Len(t) /\ IsDigit(t[i + 1])

RemoveUnderscores(t) == SelectSeq(t, LAMBDA c : c /= "_")

\* The number of consecutive digits of b from position i on.
CountDigits(b, i) ==
  (CHOOSE j \in i..(Len(b) + 1) :
     /\ j > Len(b) \/ ~IsDigit(b[j])
     /\ \A k \in i..(j - 1) : IsDigit(b[k])) - i

\* The magnitude written by the digit text d.
DigitsMag(d) ==
  LET Step(acc, i) == MulAdd(acc, 10, DigitVal(d[i]))
  IN  FoldRange(Step, <<>>, 1, Len(d))

\* Exponents are accumulated up to this magnitude; beyond it the result is
\* decided by the range checks of DecToFloat alone.
ExpCap == 10^5

\* The number written by the digit text d, capped at ExpCap.
SmallNat(d) ==
  LET Step(acc, i) ==
        IF acc * 10 + DigitVal(d[i]) > ExpCap THEN ExpCap
        ELSE acc * 10 + DigitVal(d[i])
  IN  FoldRange(Step, 0, 1, Len(d))

\* a * 10^k
MulPow10(a, k) ==
  LET Step(acc, i) == MulAdd(acc, 10, 0) IN FoldRange(Step, a, 1, k)

\* [q |-> a div 10^k, lost |-> whether the division left a remainder]
DivPow10(a, k) ==
  LET Step(st, i) ==
        Let(DivSmall(st.q, 10), LAMBDA x :
          [q |-> x.q, lost |-> st.lost \/ x.r /= 0])
  IN  FoldRange(Step, [q |-> a, lost |-> FALSE], 1, k)

\* Decimal exponents at or beyond which every nonzero d * 10^e overflows,
\* and the decimal magnitude below which every value rounds to zero.
MaxDecExp == 309

MinDecExp == -324

\* The double nearest to (-1)^neg * d * 10^e, d written with nd digits.
DecToFloat(neg, d, nd, e) ==
  IF d = <<>> THEN FZero(neg)
  ELSE IF e >= MaxDecExp THEN FInf(neg)
  ELSE IF nd + e < MinDecExp THEN FZero(neg)
  ELSE IF e >= 0
  THEN Let(MulPow10(d, e), LAMBDA n : MakeFloat(neg, n, 0, FALSE))
  ELSE Let(DivPow10(ShiftLeft(d, 4 * (0 - e) + MantBits + 3), 0 - e), LAMBDA x :
         MakeFloat(neg, x.q, 0 - (4 * (0 - e) + MantBits + 3), x.lost))

\* The exponent of a decimal literal b at position p, where the mantissa
\* ends: e [sign] digits, taken only when it is complete.
\* [len |-> its length, val |-> its value]
ScanExponent(b, p) ==
  IF p <= Len(b) /\ b[p] \in {"e", "E"}
  THEN LET signed == p + 1 <= Len(b) /\ b[p + 1] \in {"+", "-"}
           p3 == IF signed THEN p + 2 ELSE p + 1
       IN  Let(CountDigits(b, p3), LAMBDA n3 :
             IF n3 = 0 THEN [len |-> 0, val |-> 0]
             ELSE Let(SmallNat(SubSeq(b, p3, p3 + n3 - 1)), LAMBDA x :
                    [len |-> p3 + n3 - p,
                     val |-> IF signed /\ b[p + 1] = "-" THEN 0 - x ELSE x]))
  ELSE [len |-> 0, val |-> 0]

\* A decimal float literal without sign: digits [. [digits]] or . digits,
\* then an optional exponent.  [ok, val]
ParseDecimal(neg, b) ==
  Let(CountDigits(b, 1), LAMBDA n1 :
    LET dot == n1 + 1 <= Len(b) /\ b[n1 + 1] = "."
    IN  Let(IF dot THEN CountDigits(b, n1 + 2) ELSE 0, LAMBDA n2 :
          LET p2 == IF dot THEN n1 + 2 + n2 ELSE n1 + 1
          IN  Let(ScanExponent(b, p2), LAMBDA ex :
                IF n1 + n2 >= 1 /\ p2 + ex.len = Len(b) + 1
                THEN Let(DigitsMag(SubSeq(b, 1, n1) \o SubSeq(b, n1 + 2, n1 + 1 + n2)),
                         LAMBDA d : Ok(DecToFloat(neg, d, n1 + n2, ex.val - n2)))
                ELSE Raise("ValueError"))))

\* "inf", "infinity" and "nan" in any case, without sign.  [ok, val]
ParseInfNan(neg, b) ==
  Let(Lower(b), LAMBDA w :
    IF w = <<"i", "n", "f">> \/ w = <<"i", "n", "f", "i", "n", "i", "t", "y">>
    THEN Ok(FInf(neg))
    ELSE IF w = <<"n", "a", "n">> THEN Ok(FNan)
    ELSE Raise("ValueError"))

\* float(s) for a text s; ValueError when s is no float literal.
ParseFloat(s) ==
  Let(Strip(s), LAMBDA t :
    IF ~UnderscoresOk(t) THEN Raise("ValueError")
    ELSE Let(RemoveUnderscores(t), LAMBDA u :
           Let(IF HasSign(u) THEN Tail(u) ELSE u, LAMBDA b :
             Let(ParseDecimal(HasSign(u) /\ u[1] = "-", b), LAMBDA dec :
               IF dec.ok THEN dec ELSE ParseInfNan(HasSign(u) /\ u[1] = "-", b)))))

(***************************************************************************)
(* The inputs of the model                                                 *)
(***************************************************************************)
\* The longest generated text.
MaxLen == 3

\* The most lines standard input holds beyond the five that are read.
MaxExtra == 1

\* All texts over the alphabet A of at most MaxLen characters.
TextsOver(A) == UNION {[1..k -> A] : k \in 0..MaxLen}

IntTexts == TextsOver({"0", "1", "-", "+", "_", " ", "a"})

FloatTexts == TextsOver({"0", "2", "9", ".", "-", "e"})

\* "true" in every mix of upper and lower case.
TrueTexts ==
  {[i \in 1..4 |-> IF u[i] THEN UpperChars[<<20, 18, 21, 5>>[i]]
                           ELSE LowerChars[<<20, 18, 21, 5>>[i]]] :
     u \in [1..4 -> BOOLEAN]}

\* 10^k written out.
TenTo(k) == <<"1">> \o [i \in 1..k |-> "0"]

IntSpecials ==
  { <<"4", "2">>, <<"0", "0", "7">>, <<" ", "+", "7", " ">>, <<"-", "0">>,
    <<"1", "_", "0", "0", "0">>, <<"-", "3">>, <<"7", ".", "0">>,
    <<"1", "6", "7", "7", "7", "2", "1", "7">>,
    <<"9", "0", "0", "7", "1", "9", "9", "2", "5", "4", "7", "4", "0", "9", "9", "3">>,
    TenTo(308), TenTo(309), <<"-">> \o TenTo(309) }

FloatSpecials ==
  { <<"3", ".", "1", "4">>, <<"2", ".", "5">>, <<"-", "2", ".", "9">>,
    <<" ", "2", ".", "9", "\t">>, <<"1", "_", "0", ".", "5">>,
    <<"i", "n", "f">>, <<"-", "I", "n", "f", "i", "n", "i", "t", "y">>,
    <<"n", "a", "n">>, <<"N", "a", "N">>, <<"a", "b", "c">>,
    <<"1", "e", "4", "0", "0">>, <<"1", "e", "-", "4", "0", "0">>,
    <<"-", "1", "e", "3", "0", "8">>, <<"5", "e", "-", "3", "2", "4">>,
    <<"-", "0", ".", "0">>, <<"0", ".", "1">>,
    <<"2", ".">> \o [i \in 1..20 |-> "9"],
    <<"-", "0", ".">> \o [i \in 1..20 |-> "9"],
    <<"9", "0", "0", "7", "1", "9", "9", "2", "5", "4", "7", "4", "0", "9", "9", "3">> }

BoolSpecials ==
  { <<"f", "a", "l", "s", "e">>, <<"y", "e", "s">>, <<>>, <<"1">>,
    <<" ", "T", "r", "u", "e", "\t">>, <<"t", "r", "u">>,
    <<"t", "r", "u", "e", "e">>, <<"t", " ", "r", "u", "e">>,
    <<"T", "r", "u", "e", "!">> }

\* The five lines of the example run.
Example ==
  << <<"4", "2">>, <<"3", ".", "1", "4">>, <<"T", "r", "u", "e">>, <<"7">>,
     <<"2", ".", "5">> >>

LineTexts(k) ==
  CASE k = 1 -> IntTexts \cup IntSpecials
    [] k = 2 -> FloatTexts \cup FloatSpecials
    [] k = 3 -> TrueTexts \cup BoolSpecials
    [] k = 4 -> IntTexts \cup IntSpecials
    [] k = 5 -> FloatTexts \cup FloatSpecials

\* The example with one line replaced by each text of its kind.
VaryOne == {[Example EXCEPT ![k] = t] : <<k, t>> \in
              UNION {{<<k, t>> : t \in LineTexts(k)} : k \in 1..5}}

\* Well-formed and malformed lines in every combination.
Combos ==
  { <<a, b, c, d, e>> :
      a \in {<<"4", "2">>, <<"a", "b", "c">>, <<" ", "+", "7", " ">>},
      b \in {<<"3", ".", "1", "4">>, <<"a", "b", "c">>, <<"n", "a", "n">>},
      c \in {<<"T", "R", "U", "E">>, <<"y", "e", "s">>},
      d \in {<<"7">>, <<"a", "b", "c">>, <<"0">>, <<"-", "3">>, TenTo(309)},
      e \in {<<"2", ".", "5">>, <<"a", "b", "c">>, <<"i", "n", "f">>,
             <<"0", ".", "0">>, <<"-", "2", ".", "9">>} }

\* Standard input: five lines, fewer, or more.
Stdins ==
  VaryOne \cup Combos
    \cup {SubSeq(Example, 1, n) : n \in 0..4}
    \cup {Example \o [i \in 1..n |-> <<"9">>] : n \in 1..MaxExtra}

(***************************************************************************)
(* solve()                                                                 *)
(***************************************************************************)
VARIABLES
  stdin,      \* the lines standard input holds
  nread,      \* how many of them input() has consumed
  pc,         \* the line of solve() being executed
  status,     \* "running", "done" (solve() returned) or "fail" (it raised)
  str_int, str_float, str_bool, int_val, float_val,   \* the locals
  fmt,        \* the formatted f-string print() is about to write, if any
  stdout,     \* the lines written
  exc,        \* the exception that ended the run, or None
  computed,   \* the labels whose conversion has been evaluated, in order
  rt          \* the conversions float(n) and int(float(n)) applied on their own

solveVars == <<stdin, nread, pc, status, str_int, str_float, str_bool, int_val,
               float_val, fmt, stdout, exc, computed>>

vars == <<solveVars, rt>>

\* The labels with those of lines 12 and 13 exchanged.
LabelsExchanged ==
  << "String to int", "String to float", "String to bool", "Int to string",
     "Int to bool", "Int to float", "Float to string", "Float to int",
     "Float to bool" >>

Labels ==
  << "String to int", "String to float", "String to bool", "Int to string",
     "Int to float", "Int to bool", "Float to string", "Float to int",
     "Float to bool" >>

Init ==
  /\ stdin \in Stdins
  /\ nread = 0
  /\ pc = 2
  /\ status = "running"
  /\ str_int = None /\ str_float = None /\ str_bool = None
  /\ int_val = None /\ float_val = None
  /\ fmt = <<>>
  /\ stdout = <<>>
  /\ exc = None
  /\ computed = <<>>
  /\ rt = [step |-> "idle"]

\* input(): the next line of standard input, EOFError when there is none.
Input == IF nread < Len(stdin) THEN Ok(stdin[nread + 1]) ELSE Raise("EOFError")

\* The assignments with the print() calls started one statement early:
\* line 8 follows line 5, and line 6 is not reached before the output.
ReadIntoEarly(line, r, others) ==
  /\ status = "running"
  /\ pc = line
  /\ nread' = IF Input.ok THEN nread + 1 ELSE nread
  /\ IF Input.ok /\ r.ok
     THEN /\ pc' = IF line >= 5 THEN 8 ELSE line + 1
          /\ UNCHANGED <<status, exc>>
     ELSE /\ status' = "fail"
          /\ exc' = IF Input.ok THEN r.exc ELSE Input.exc
          /\ pc' = pc
  /\ UNCHANGED others
  /\ UNCHANGED <<stdin, fmt, stdout, computed, rt>>

\* An assignment "var = conv(input())" at line: the line is consumed, then
\* converted; r is the conversion's result.
ReadInto(line, r, others) ==
  /\ status = "running"
  /\ pc = line
  /\ nread' = IF Input.ok THEN nread + 1 ELSE nread
  /\ IF Input.ok /\ r.ok
     THEN /\ pc' = IF line = 6 THEN 8 ELSE line + 1
          /\ UNCHANGED <<status, exc>>
     ELSE /\ status' = "fail"
          /\ exc' = IF Input.ok THEN r.exc ELSE Input.exc
          /\ pc' = pc
  /\ UNCHANGED others
  /\ UNCHANGED <<stdin, fmt, stdout, computed, rt>>

Read2 ==
  /\ ReadInto(2, Ok(None), <<str_float, str_bool, int_val, float_val>>)
  /\ str_int' = IF Input.ok THEN Strip(Input.val) ELSE str_int

Read3 ==
  /\ ReadInto(3, Ok(None), <<str_int, str_bool, int_val, float_val>>)
  /\ str_float' = IF Input.ok THEN Strip(Input.val) ELSE str_float

Read4 ==
  /\ ReadInto(4, Ok(None), <<str_int, str_float, int_val, float_val>>)
  /\ str_bool' = IF Input.ok THEN Strip(Input.val) ELSE str_bool

\* Lines 5 and 6 with both input() calls made before the conversions:
\* the fifth line is consumed with the fourth.
Read5BothFirst ==
  LET r == IF Input.ok THEN ParseInt(Input.val) ELSE Input
  IN  /\ status = "running"
      /\ pc = 5
      /\ nread' = IF nread + 2 <= Len(stdin) THEN nread + 2 ELSE Len(stdin)
      /\ IF r.ok
         THEN pc' = 6 /\ int_val' = r.val /\ UNCHANGED <<status, exc>>
         ELSE pc' = pc /\ int_val' = int_val /\ status' = "fail" /\ exc' = r.exc
      /\ UNCHANGED <<stdin, str_int, str_float, str_bool, float_val, fmt,
                     stdout, computed, rt>>

Read5 ==
  LET r == IF Input.ok THEN ParseInt(Input.val) ELSE Input
  IN  /\ ReadInto(5, r, <<str_int, str_float, str_bool, float_val>>)
      /\ int_val' = IF r.ok THEN r.val ELSE int_val

Read6 ==
  LET r == IF Input.ok THEN ParseFloat(Input.val) ELSE Input
  IN  /\ ReadInto(6, r, <<str_int, str_float, str_bool, int_val>>)
      /\ float_val' = IF r.ok THEN r.val ELSE float_val

\* The evaluation of the f-string of the print() at line, before the call:
\* r is the result of the conversion in it, already rendered as text.
Format(line, r) ==
  /\ status = "running"
  /\ pc = line
  /\ fmt = <<>>
  /\ IF r.ok
     THEN /\ fmt' = <<[label |-> Labels[line - 7], value |-> r.val]>>
          /\ computed' = Append(computed, Labels[line - 7])
          /\ UNCHANGED <<status, exc>>
     ELSE /\ status' = "fail"
          /\ exc' = r.exc
          /\ UNCHANGED <<fmt, computed>>
  /\ pc' = pc
  /\ UNCHANGED <<stdin, nread, str_int, str_float, str_bool, int_val, float_val,
                 stdout, rt>>

\* The print() call at line: its text goes to standard output.
Emit(line) ==
  /\ status = "running"
  /\ pc = line
  /\ fmt /= <<>>
  /\ stdout' = stdout \o fmt
  /\ fmt' = <<>>
  /\ IF line = 16 THEN pc' = pc /\ status' = "done"
                  ELSE pc' = line + 1 /\ status' = status
  /\ UNCHANGED <<stdin, nread, str_int, str_float, str_bool, int_val, float_val,
                 exc, computed, rt>>

\* r with its value rendered by Render.
Then(r, Render(_)) == IF r.ok THEN Ok(Render(r.val)) ELSE r

\* Line 8 with the conversions of lines 8 and 9 both evaluated before the
\* first print().
Format8Ahead ==
  Format(8, Let(Then(ParseInt(str_int), IntToStr), LAMBDA a :
              Let(ParseFloat(str_float), LAMBDA b :
                IF a.ok /\ ~b.ok THEN b ELSE a)))

Format8 == Format(8, Then(ParseInt(str_int), IntToStr))

Print8 == Emit(8)

Format9 == Format(9, Then(ParseFloat(str_float), FloatToStr))

Print9 == Emit(9)

\* Line 10 without .lower() on the input text.
Format10CaseSensitive ==
  Format(10, Ok(Lower(BoolToStr(str_bool = <<"t", "r", "u", "e">>))))

Format10 ==
  Format(10, Ok(Lower(BoolToStr(Lower(str_bool) = <<"t", "r", "u", "e">>))))

Print10 == Emit(10)

Format11 == Format(11, Ok(IntToStr(int_val)))

Print11 == Emit(11)

Format12 == Format(12, Then(IntToFloat(int_val), FloatToStr))

Print12 == Emit(12)

Format13 == Format(13, Ok(Lower(BoolToStr(IntToBool(int_val)))))

Print13 == Emit(13)

Format14 == Format(14, Ok(FloatToStr(float_val)))

Print14 == Emit(14)

Format15 == Format(15, Then(FloatToInt(float_val), IntToStr))

Print15 == Emit(15)

Format16 == Format(16, Ok(Lower(BoolToStr(FloatToBool(float_val)))))

Print16 == Emit(16)

Next ==
  \/ Read2 \/ Read3 \/ Read4 \/ Read5 \/ Read6
  \/ Format8 \/ Print8 \/ Format9 \/ Print9 \/ Format10 \/ Print10
  \/ Format11 \/ Print11 \/ Format12 \/ Print12 \/ Format13 \/ Print13
  \/ Format14 \/ Print14 \/ Format15 \/ Print15 \/ Format16 \/ Print16

Spec == Init /\ [][Next]_vars

(***************************************************************************)
(* The conversions of lines 12 and 15 chained on one integer:              *)
(* int(float(n)).                                                          *)
(***************************************************************************)
\* The integers tried: 0..RTMax, and 2^p - 1, 2^p, 2^p + 1 for p up to
\* RTBits, with both signs.
RTMax == 16

RTBits == 56

\* a - 1 for a magnitude a /= 0.
Pred(a) ==
  LET k == CHOOSE i \in 1..Len(a) : a[i] /= 0 /\ \A j \in 1..(i - 1) : a[j] = 0
  IN  Trim([i \in 1..Len(a) |->
              IF i < k THEN Base - 1 ELSE IF i = k THEN a[i] - 1 ELSE a[i]])

PowerOfTwo(p) == ShiftLeft(<<1>>, p)

RTMags ==
  {MagOf(k) : k \in 0..RTMax}
    \cup UNION {{Pred(PowerOfTwo(p)), PowerOfTwo(p), MulAdd(PowerOfTwo(p), 1, 1)} :
                  p \in 1..RTBits}

RTInts == {MkInt(neg, m) : neg \in BOOLEAN, m \in RTMags}

RTInit ==
  /\ rt \in {[step |-> "int", n |-> n] : n \in RTInts}
  /\ stdin = <<>>
  /\ nread = 0
  /\ pc = 2
  /\ status = "idle"
  /\ str_int = None /\ str_float = None /\ str_bool = None
  /\ int_val = None /\ float_val = None
  /\ fmt = <<>>
  /\ stdout = <<>>
  /\ exc = None
  /\ computed = <<>>

\* float(n), as at line 12
RTToFloat ==
  /\ rt.step = "int"
  /\ rt' = Let(IntToFloat(rt.n), LAMBDA r :
             IF r.ok THEN [step |-> "float", n |-> rt.n, f |-> r.val]
                     ELSE [step |-> "raised", n |-> rt.n, exc |-> r.exc])
  /\ UNCHANGED solveVars

\* int(f), as at line 15
RTToInt ==
  /\ rt.step = "float"
  /\ rt' = Let(FloatToInt(rt.f), LAMBDA r :
             IF r.ok THEN [step |-> "back", n |-> rt.n, f |-> rt.f, r |-> r.val]
                     ELSE [step |-> "raised", n |-> rt.n, exc |-> r.exc])
  /\ UNCHANGED solveVars

RTNext == RTToFloat \/ RTToInt

SpecRT == RTInit /\ [][RTNext]_vars

(***************************************************************************)
(* What the specification says of the input texts, stated on the texts     *)
(* themselves and not through the conversions above.                       *)
(***************************************************************************)
NonSpace(s) == {i \in 1..Len(s) : ~IsSpace(s[i])}

\* s without its surrounding whitespace.
Trimmed(s) ==
  IF NonSpace(s) = {} THEN <<>>
  ELSE SubSeq(s, CHOOSE i \in NonSpace(s) : \A j \in NonSpace(s) : i <= j,
                 CHOOSE i \in NonSpace(s) : \A j \in NonSpace(s) : i >= j)

Unsigned(t) == IF t /= <<>> /\ t[1] \in {"+", "-"} THEN SubSeq(t, 2, Len(t)) ELSE t

\* Every underscore of b stands between two digits.
UnderscoresBetweenDigits(b) ==
  \A i \in 1..Len(b) :
    b[i] = "_" => 1 < i /\ i < Len(b) /\ IsDigit(b[i - 1]) /\ IsDigit(b[i + 1])

\* An integer literal: [sign] digits, underscores allowed between digits,
\* whitespace allowed around.
IsIntLiteral(s) ==
  LET b == Unsigned(Trimmed(s))
  IN  /\ b /= <<>>
      /\ UnderscoresBetweenDigits(b)
      /\ \A i \in 1..Len(b) : IsDigit(b[i]) \/ b[i] = "_"

AllDigits(b, i, j) == \A k \in i..j : IsDigit(b[k])

\* e [sign] digits
IsExponentPart(x) ==
  /\ Len(x) >= 2
  /\ x[1] \in {"e", "E"}
  /\ LET y == Unsigned(Tail(x)) IN y /= <<>> /\ AllDigits(y, 1, Len(y))

\* digits [. [digits]] [exponent]  or  . digits [exponent]
IsDecimalBody(b) ==
  \E i \in 0..Len(b) : \E j \in i..Len(b) :
    /\ AllDigits(b, 1, i)
    /\ j > i => b[i + 1] = "." /\ AllDigits(b, i + 2, j)
    /\ i + j - i - (IF j > i THEN 1 ELSE 0) >= 1
    /\ j < Len(b) => IsExponentPart(SubSeq(b, j + 1, Len(b)))

IsInfNanWord(b) ==
  \E w \in {<<"i", "n", "f">>, <<"i", "n", "f", "i", "n", "i", "t", "y">>,
            <<"n", "a", "n">>} :
    /\ Len(b) = Len(w)
    /\ \A i \in 1..Len(w) :
         b[i] = w[i] \/ \E k \in 1..26 : LowerChars[k] = w[i] /\ UpperChars[k] = b[i]

\* A float literal: [sign] decimal | inf | infinity | nan, underscores
\* allowed between digits, whitespace allowed around.
IsFloatLiteral(s) ==
  LET t == Trimmed(s)
      b == Unsigned(SelectSeq(t, LAMBDA c : c /= "_"))
  IN  UnderscoresBetweenDigits(t) /\ (IsDecimalBody(b) \/ IsInfNanWord(b))

Has5 == Len(stdin) >= 5

Bad1 == Has5 /\ ~IsIntLiteral(stdin[1])

Bad2 == Has5 /\ ~IsFloatLiteral(stdin[2])

Bad4 == Has5 /\ ~IsIntLiteral(stdin[4])

Bad5 == Has5 /\ ~IsFloatLiteral(stdin[5])

AllParseable == Has5 /\ ~Bad1 /\ ~Bad2 /\ ~Bad4 /\ ~Bad5

\* The labels of section 6 of the specification, in its order.
ExpectedLabels ==
  << "String to int", "String to float", "String to bool", "Int to string",
     "Int to float", "Int to bool", "Float to string", "Float to int",
     "Float to bool" >>

OutLabels == [i \in 1..Len(stdout) |-> stdout[i].label]

\* The output so far is the first lines of the nine, in order.
OutputIsPrefix == OutLabels = SubSeq(ExpectedLabels, 1, Len(stdout))

\* A run that has neither returned nor raised stands before a statement of
\* solve(): a read of lines 2-6, or the formatting or the writing of one of
\* the print() calls of lines 8-16.
AtStatement ==
  status = "running" =>
    \/ pc \in 2..6 /\ nread = pc - 2 /\ fmt = <<>>
    \/ pc \in 8..16 /\ nread = 5 /\ Len(fmt) <= 1 /\ Len(stdout) = pc - 8

\* 2^1024 - 2^970, the least magnitude float() cannot convert.
DoubleLimit == ShiftLeft(Pred(PowerOfTwo(MantBits + 1)), MaxExp - MantBits - 1)

\* From line 8 on: the float of line 5 is finite.
Line5Finite == pc >= 8 /\ float_val.cls = "fin"

\* From line 6 on: the integer of line 4 is within the range of a float.
Line4InFloatRange == pc >= 6 /\ Cmp(int_val.mag, DoubleLimit) < 0

(***************************************************************************)
(* C1                                                                      *)
(***************************************************************************)
\* C1 as claimed: whenever all five lines are parseable, the run writes the
\* nine lines in order and returns; it never raises.
C1_AsClaimed ==
  /\ OutputIsPrefix
  /\ status = "done" => Len(stdout) = 9
  /\ status = "fail" => ~AllParseable

\* C1, amended: the output is always the first lines of the nine in the fixed
\* order; a run that returns has written all nine; and a run whose five
\* lines are parseable, whose line-5 float is finite and whose line-4
\* integer is within the float range never raises: it goes from statement to
\* statement until it returns with the nine lines written.
C1_NineLinesInOrder ==
  /\ OutputIsPrefix
  /\ AtStatement
  /\ status = "done" => Len(stdout) = 9 /\ fmt = <<>>
  /\ (status = "fail" /\ ~(pc >= 8 /\ ~(Line5Finite /\ Line4InFloatRange))) =>
       ~AllParseable

C1_Witness ==
  /\ status = "done"
  /\ AllParseable
  /\ Len(stdout) = 9
  /\ stdout[9].label = "Float to bool"

(***************************************************************************)
(* C2                                                                      *)
(***************************************************************************)
LinesOf(labels) ==
  {i \in 1..Len(stdout \o fmt) : (stdout \o fmt)[i].label \in labels}

\* C2: when one of the four numeric lines is malformed, the run never
\* returns, no line showing a conversion of the malformed input is ever
\* formatted or written, and the run raises ValueError where the malformed
\* text is converted.
C2_MalformedIsFatal ==
  LET bad1 == Bad1
      bad2 == Bad2
      bad4 == Bad4
      bad5 == Bad5
  IN  /\ status = "done" => ~(bad1 \/ bad2 \/ bad4 \/ bad5)
      /\ LinesOf({"String to int"}) /= {} => ~bad1
      /\ LinesOf({"String to float"}) /= {} => ~bad2
      /\ LinesOf({"Int to string", "Int to float", "Int to bool"}) /= {} => ~bad4
      /\ LinesOf({"Float to string", "Float to int", "Float to bool"}) /= {} =>
           ~bad5
      /\ (status = "running" /\ pc > 5) => ~bad4
      /\ (status = "running" /\ pc > 6) => ~bad5
      /\ (status = "running" /\ pc > 8) => ~bad1
      /\ (status = "running" /\ pc > 9) => ~bad2
      /\ (status = "fail" /\ Has5 /\ exc = "ValueError" /\ pc <= 9) =>
           bad1 \/ bad2 \/ bad4 \/ bad5

C2_Witness ==
  /\ Bad1 /\ ~Bad2 /\ ~Bad4 /\ ~Bad5
  /\ status = "fail"
  /\ pc = 8
  /\ exc = "ValueError"
  /\ stdout = <<>>

(***************************************************************************)
(* C6                                                                      *)
(***************************************************************************)
\* C6 as claimed: no output before all five lines are read, and all nine
\* conversions are computed before the first line is written.
C6_AsClaimed == stdout /= <<>> => nread = 5 /\ Len(computed) = 9

\* C6, amended: nothing is converted for output or written before all five
\* lines are read; the conversions are evaluated one at a time in the order
\* of the output, each after the lines before it are written and before its
\* own line is written.
C6_ReadThenConvertAndWriteInTurn ==
  /\ (stdout /= <<>> \/ computed /= <<>>) => nread = 5
  /\ Len(fmt) <= 1
  /\ computed = SubSeq(ExpectedLabels, 1, Len(stdout) + Len(fmt))

C6_Witness ==
  /\ Len(stdout) = 3
  /\ Len(computed) = 4
  /\ fmt /= <<>>
  /\ nread = 5

(***************************************************************************)
(* C7                                                                      *)
(***************************************************************************)
DigitsOf(s) == SelectSeq(s, IsDigit)

\* C7: the lines are consumed in order, five in a run that returns and
\* never a sixth; the first three are only trimmed when read (reading them
\* fails only at end of input), the fourth is parsed as an integer and the
\* fifth as a float when read, so a malformed fourth line ends the run
\* before the fifth is consumed.  (What is read is stated for the statements
\* of lines 2-6, where it is read; the print() calls read nothing.)
C7_ReadOrder ==
  LET int4 == IsIntLiteral(stdin[4])
  IN  /\ nread <= 5 /\ nread <= Len(stdin)
      /\ status = "done" => nread = 5
      /\ (status = "running" /\ pc <= 6) => nread = pc - 2
      /\ (status = "fail" /\ pc <= 4) => exc = "EOFError" /\ nread = Len(stdin)
      /\ (pc <= 6 /\ nread >= 1) => str_int = Trimmed(stdin[1])
      /\ (pc <= 6 /\ nread >= 2) => str_float = Trimmed(stdin[2])
      /\ (pc <= 6 /\ nread >= 3) => str_bool = Trimmed(stdin[3])
      /\ (pc <= 6 /\ nread >= 4 /\ ~int4) =>
           nread = 4 /\ status = "fail" /\ pc = 5 /\ exc = "ValueError"
      /\ (pc <= 6 /\ nread >= 4 /\ int4) =>
           int_val.mag = DigitsMag(DigitsOf(stdin[4]))
      /\ (pc <= 6 /\ nread = 5 /\ ~IsFloatLiteral(stdin[5])) =>
           status = "fail" /\ pc = 6 /\ exc = "ValueError"
      /\ pc > 6 => nread = 5

C7_Witness ==
  /\ Len(stdin) >= 5
  /\ Bad1
  /\ status = "fail"
  /\ pc = 5
  /\ nread = 4
  /\ exc = "ValueError"

(***************************************************************************)
(* C10                                                                     *)
(***************************************************************************)
\* What C10 says of a run that raises before the third line: output only
\* with five lines and lines 1, 4 and 5 parseable, and then exactly one line
\* when line 2 is malformed.
EarlyFailures ==
  LET bad145 == Bad1 \/ Bad4 \/ Bad5
  IN  /\ OutputIsPrefix
      /\ (status = "fail" /\ stdout /= <<>>) => Has5 /\ ~bad145
      /\ (status = "fail" /\ Len(stdout) /= 1 /\ Has5 /\ ~bad145) => ~Bad2
      /\ status = "done" => Len(stdout) = 9

\* C10 as claimed: the output before a failure is a prefix of the nine
\* lines, empty when input is short or line 1, 4 or 5 is malformed, one line
\* when only line 2 is; and with five parseable lines and a finite line-5
\* float nothing fails once two lines are written.
C10_AsClaimed ==
  /\ EarlyFailures
  /\ (status = "fail" /\ Len(stdout) >= 2 /\ Line5Finite) => ~AllParseable

\* C10, amended: as claimed, for runs whose line-4 integer is within the
\* float range as well; a run with five parseable lines raises only after
\* four lines (line-4 integer beyond the float range) or after seven
\* (line-5 float not finite).
C10_PartialOutput ==
  /\ EarlyFailures
  /\ (status = "fail" /\ Len(stdout) >= 2 /\ Line5Finite /\ Line4InFloatRange) =>
       ~AllParseable
  /\ (status = "fail" /\ Len(stdout) \notin {4, 7}) => ~AllParseable
  /\ (status = "fail" /\ Len(stdout) = 4) => ~Line4InFloatRange
  /\ (status = "fail" /\ Len(stdout) = 7) => ~Line5Finite

C10_Witness ==
  /\ Bad2 /\ ~Bad1 /\ ~Bad4 /\ ~Bad5
  /\ status = "fail"
  /\ Len(stdout) = 1
  /\ stdout[1].label = "String to int"

(***************************************************************************)
(* The values shown                                                        *)
(***************************************************************************)
\* The lines formatted so far, written or about to be written.
Formatted == stdout \o fmt

\* The value of the k-th line, once it is formatted.
HasLine(k) == Len(Formatted) >= k

Shown(k) == Formatted[k].value

IsBoolWord(t) == t \in {<<"t", "r", "u", "e">>, <<"f", "a", "l", "s", "e">>}

BoolWord(b) == IF b THEN <<"t", "r", "u", "e">> ELSE <<"f", "a", "l", "s", "e">>

\* The integer a decimal text of the form [-]digits denotes.
TextNeg(t) == t /= <<>> /\ t[1] = "-"

TextMag(t) == DigitsMag(DigitsOf(t))

(***************************************************************************)
(* C3                                                                      *)
(***************************************************************************)
\* The word "true" in any mix of cases.
IsTrueWord(t) ==
  /\ Len(t) = 4
  /\ t[1] \in {"t", "T"} /\ t[2] \in {"r", "R"}
  /\ t[3] \in {"u", "U"} /\ t[4] \in {"e", "E"}

\* C3: the value of "String to bool" is "true" exactly when the third line,
\* trimmed, is the word "true" in any mix of cases, and "false" for every
\* other text; it is always one of these two words, and the run never
\* raises at line 10.
C3_StringToBool ==
  /\ HasLine(3) => /\ IsBoolWord(Shown(3))
                   /\ Shown(3) = BoolWord(IsTrueWord(Trimmed(stdin[3])))
  /\ status = "fail" => pc /= 10
  /\ (status = "running" /\ pc > 10) => HasLine(3)

C3_Witness ==
  /\ HasLine(3)
  /\ Shown(3) = <<"t", "r", "u", "e">>
  /\ stdin[3] = <<" ", "T", "r", "u", "e", "\t">>

(***************************************************************************)
(* C4                                                                      *)
(***************************************************************************)
\* s has digits, all of them 0.
AllZeroDigits(s) ==
  /\ \E i \in 1..Len(s) : IsDigit(s[i])
  /\ \A i \in 1..Len(s) : IsDigit(s[i]) => s[i] = "0"

\* C4: the value of "Int to bool" is "false" when the integer of line 4 is
\* 0 (all its digits are 0) and "true" otherwise, the value of "Float to
\* bool" is "false" when the float of line 5 is zero and "true" otherwise;
\* negative values give "true" and both values are lower-case words.
C4_NumbersToBool ==
  /\ HasLine(6) => /\ IsBoolWord(Shown(6))
                   /\ Shown(6) = BoolWord(~AllZeroDigits(stdin[4]))
                   /\ (int_val.neg /\ int_val.mag /= <<>>) =>
                        Shown(6) = <<"t", "r", "u", "e">>
  /\ HasLine(9) => /\ IsBoolWord(Shown(9))
                   /\ Shown(9) =
                        BoolWord(~(float_val.cls = "fin" /\ float_val.mant = <<>>))
                   /\ AllZeroDigits(Trimmed(stdin[5])) =>
                        Shown(9) = <<"f", "a", "l", "s", "e">>
                   /\ (float_val.neg /\ float_val.mant /= <<>>) =>
                        Shown(9) = <<"t", "r", "u", "e">>

C4_Witness ==
  /\ HasLine(9)
  /\ TextNeg(Trimmed(stdin[4])) /\ ~AllZeroDigits(stdin[4])
  /\ Shown(6) = <<"t", "r", "u", "e">>
  /\ float_val.neg /\ float_val.mant /= <<>>
  /\ Shown(9) = <<"t", "r", "u", "e">>

(***************************************************************************)
(* C5                                                                      *)
(***************************************************************************)
\* |r| <= |x| < |r| + 1 for the integer magnitude r and the float
\* x = mant * 2^exp, both sides scaled by 2^-exp when exp is negative.
TruncatedMagnitude(r, x) ==
  IF x.exp >= 0 THEN Cmp(r, ShiftLeft(x.mant, x.exp)) = 0
  ELSE /\ Cmp(ShiftLeft(r, 0 - x.exp), x.mant) <= 0
       /\ Cmp(x.mant, ShiftLeft(MulAdd(r, 1, 1), 0 - x.exp)) < 0

\* C5: for every finite float x of line 5, the value r of "Float to int" is
\* x truncated toward zero: |r| <= |x| < |r| + 1, r has the sign of x or is
\* 0 (printed without a sign), and the run does not raise at line 15.
C5_FloatToIntTruncates ==
  /\ HasLine(8) =>
       /\ float_val.cls = "fin"
       /\ TruncatedMagnitude(TextMag(Shown(8)), float_val)
       /\ TextNeg(Shown(8)) = (float_val.neg /\ TextMag(Shown(8)) /= <<>>)
  /\ (pc >= 8 /\ float_val.cls = "fin") => ~(status = "fail" /\ pc = 15)

C5_Witness ==
  /\ HasLine(8)
  /\ float_val.neg /\ float_val.exp < 0
  /\ stdin[5] = <<"-", "2", ".", "9">>
  /\ Shown(8) = <<"-", "2">>

(***************************************************************************)
(* C8                                                                      *)
(***************************************************************************)
\* The integers a float holds exactly: |n| <= 2^53.
InExactRange(n) == Cmp(n.mag, PowerOfTwo(MantBits)) <= 0

\* C8: for every integer n with |n| <= 2^53, float(n) does not raise and
\* int(float(n)) is n again; 2^53 + 1 is the first integer that is not.
C8_RoundTrip ==
  /\ (rt.step = "back" /\ InExactRange(rt.n)) => rt.r = rt.n
  /\ (rt.step = "back" /\ rt.n.mag = MulAdd(PowerOfTwo(MantBits), 1, 1)) =>
       rt.r /= rt.n
  /\ (rt.step = "raised") => ~InExactRange(rt.n)

C8_Witness ==
  /\ rt.step = "back"
  /\ rt.n = MkInt(TRUE, PowerOfTwo(MantBits))
  /\ rt.r = rt.n

(***************************************************************************)
(* C9                                                                      *)
(***************************************************************************)
\* The canonical decimal text of an integer literal: its digits without
\* leading zeros, after "-" if it is negative and not zero.
Canon(s) ==
  LET d == DigitsOf(s)
      k == CHOOSE i \in 1..Len(d) : d[i] /= "0" /\ \A j \in 1..(i - 1) : d[j] = "0"
  IN  IF AllZeroDigits(s) THEN <<"0">>
      ELSE (IF TextNeg(Trimmed(s)) THEN <<"-">> ELSE <<>>) \o SubSeq(d, k, Len(d))

\* C9 as claimed: the value of "Int to string" is the text of line 4.
C9_AsClaimed == HasLine(4) => Shown(4) = stdin[4]

\* C9, amended: the value of "Int to string" is the canonical decimal text
\* of the integer of line 4 (surrounding whitespace, a leading "+",
\* underscores and leading zeros removed, "-0" shown as "0"); it is the text
\* of line 4 exactly when that text is canonical already.
C9_IntToStringCanonical ==
  HasLine(4) => /\ Shown(4) = Canon(stdin[4])
                /\ (Shown(4) = stdin[4]) = (stdin[4] = Canon(stdin[4]))

C9_Witness ==
  /\ HasLine(4)
  /\ stdin[4] = <<" ", "+", "7", " ">>
  /\ Shown(4) = <<"7">>

=============================================================================
